---- MODULE Spec2Model ----
(***************************************************************************)
(* Model of the AI request dispatcher of lumen-browser                     *)
(*   src/src/main/ipc/ai.ts           registerAIIpc: start-chat,           *)
(*                                    cancel-chat, save-config, runQueue   *)
(*   src/unnamed/part_006             AIService: streamChat,               *)
(*                                    streamWithRetry, estimateCost        *)
(*   src/unnamed/part_001             SettingsStore, DEFAULT_SETTINGS      *)
(*   src/src/main/services/secure-storage.ts   SecureStorage               *)
(*                                                                         *)
(* The main process runs on one event loop: every IPC handler, timer       *)
(* callback and promise continuation runs to completion before the next    *)
(* one starts, so each is one action.  Money is counted in micro-dollars   *)
(* (1 USD = 1000000), the resolution of estimateCost's toFixed(6).         *)
(***************************************************************************)
EXTENDS Integers, Sequences, FiniteSets, TLC

\* ------------------------------------------------------------- bounds
\* number of start_chat calls that are accepted in one behaviour
MaxReq == 3
\* number of token events sent in one behaviour
MaxTokens == 1
\* accepted start_chat calls in the admission specification
MaxAdmitted == 2
\* accepted start_chat calls in the retry specification
MaxRetried == 1
\* accepted start_chat calls in the start-order specification
MaxOrdered == 4
\* accepted start_chat calls in the timeout specification
MaxTimed == 3
\* accepted start_chat calls in the ledger specification
MaxBilled == 2
\* accepted start_chat calls in the budget-gate specification
MaxGated == 4
\* lines of a response body in the decoder specification
MaxFrames == 2
\* accepted start_chat calls in the failure specification
MaxFailed == 3
\* accepted start_chat calls in the cost specification
MaxCosted == 2
\* accepted start_chat calls in the work-conservation specification
MaxWorked == 3
\* accepted start_chat calls in the terminal-event specification
MaxSettled == 2
\* accepted start_chat calls in the test_connection specification
MaxProbed == 3

\* ------------------------------------------------- program constants
MAX_CONCURRENT_STREAMS == 2
maxAttempts == 3

Min(a, b) == IF a <= b THEN a ELSE b
Max(a, b) == IF a >= b THEN a ELSE b

\* the requestIds start_chat may issue, in the order randomUUID returns them
MaxIssued ==
  Max(Max(Max(MaxReq, MaxOrdered), Max(MaxAdmitted, MaxRetried)),
      Max(Max(Max(MaxTimed, MaxBilled), Max(MaxGated, MaxFailed)),
          Max(Max(MaxCosted, MaxProbed), Max(MaxWorked, MaxSettled))))
Ids == 1..MaxIssued
\* an id that start_chat never issues
UnknownId == MaxIssued + 1

None == "none"
Providers == {"openai", "anthropic"}
\* the calendar the wall clock walks through: new Date().toISOString()
Calendar == << [ym |-> "2026-10", d |-> "30"],
               [ym |-> "2026-10", d |-> "31"],
               [ym |-> "2026-11", d |-> "01"] >>

USD(n) == n * 1000000

RECURSIVE Pow2(_)
Pow2(n) == IF n = 0 THEN 1 ELSE 2 * Pow2(n - 1)

\* toFixed rounds the binary value of the double it is given.  A sum that
\* is halfway between two multiples of 0.0001 in decimal lies, as a double,
\* on one side or the other.  These are the halfway sums (micro-dollars)
\* stored amount + request cost, of the amounts the ledger takes within four
\* updates from the costs of the price table below, whose double lies
\* below the halfway point; the other halfway sums lie above it.
HalfwayBelow ==
  { 150, 450, 5350, 5450, 155250, 300150, 300250, 305150, 450150,
    5000150, 5000250, 5000450, 5005150, 5005250, 5005350, 5010150,
    5150250, 5150350, 5155150, 5300150, 10000150, 10000250, 15000150 }

\* Number(x.toFixed(4)) of a non-negative amount given in micro-dollars:
\* the nearest multiple of 100 micro-dollars to the double
ToFixed4(x) ==
  IF x \in HalfwayBelow THEN (x \div 100) * 100
                        ELSE ((x + 50) \div 100) * 100
\* a toFixed(6) that cuts the digits off
ToFixed6Truncates(x) == x \div 100

\* Number(x.toFixed(6)) of a non-negative amount given in units of 10^-8
\* dollars (tokens times cents per million tokens), in micro-dollars.  The
\* halfway amounts the model computes (10 prompt tokens of gpt-4o-mini)
\* lie above the halfway point as doubles.
ToFixed6(x) == (x + 50) \div 100

\* partial maps (Map, object literals)
EmptyMap == [x \in {} |-> 0]
MapPut(f, k, v) == [x \in DOMAIN f \cup {k} |-> IF x = k THEN v ELSE f[x]]
MapDel(f, k) == [x \in DOMAIN f \ {k} |-> f[x]]
MapGet(f, k, dflt) == IF k \in DOMAIN f THEN f[k] ELSE dflt

\* ---------------------------------------------------- settings store
\* two rows of the price table, in cents per million tokens
ESTIMATED_COSTS ==
  [m \in {"gpt-5", "gpt-4o-mini"} |->
     IF m = "gpt-5"
       THEN [promptPerMTok |-> 500, completionPerMTok |-> 1500]
       ELSE [promptPerMTok |-> 15, completionPerMTok |-> 60]]

EmptyUsage(periodKey) ==
  [periodKey |-> periodKey, promptTokens |-> 0, completionTokens |-> 0,
   estimatedCostUsd |-> 0, daily |-> EmptyMap, featureCosts |-> EmptyMap]

DEFAULT_SETTINGS ==
  [ai |-> [provider |-> "openai", model |-> "gpt-4o-mini",
           monthlyBudgetUsd |-> USD(20)],
   usage |-> EmptyUsage("")]

\* the settings a save_config payload may carry
SettingsChoices ==
  { [provider |-> "openai", model |-> "gpt-5", monthlyBudgetUsd |-> USD(5)],
    [provider |-> "anthropic", model |-> "gpt-5", monthlyBudgetUsd |-> USD(20)] }

\* the usage record a provider may report at the end of its stream
NoUsageReported == [reported |-> FALSE, promptTokens |-> 0, completionTokens |-> 0]
UsageChoices ==
  { NoUsageReported,
    [reported |-> TRUE, promptTokens |-> 1000000, completionTokens |-> 0] }

\* usage records that reach the budget and that make the ledger round
BilledUsageChoices ==
  { [reported |-> TRUE, promptTokens |-> 1000000, completionTokens |-> 0],
    [reported |-> TRUE, promptTokens |-> 1000, completionTokens |-> 0] }

\* usage records with a count missing, a cost halfway between two
\* millionths of a dollar, and a cost above halfway
CostUsageChoices ==
  { NoUsageReported,
    [reported |-> TRUE, promptTokens |-> 10],
    [reported |-> TRUE, completionTokens |-> 1],
    [reported |-> TRUE, promptTokens |-> 1000000, completionTokens |-> 0] }

Features == {None, "summary"}

\* no test_connection call is in flight
NoProbe ==
  [state |-> "idle", provider |-> None, attempt |-> 0, aborted |-> FALSE,
   message |-> << None, 0 >>]

\* no response is being decoded
NoStream ==
  [state |-> "idle", body |-> << >>, read |-> 0, pending |-> << >>,
   payloads |-> << >>, tokens |-> << >>, sawDone |-> FALSE, late |-> FALSE,
   cut |-> FALSE]

VARIABLES
  settings,        \* settings.json as SettingsStore.read() returns it
  apiKeys,         \* provider -> what SecureStorage.getAPIKey returns
  clock,           \* index into Calendar: the current date
  activeStreams,   \* requestId -> StreamController.queued
  aborted,         \* requestId -> abortController.signal.aborted
  queue,           \* sequence of requestIds (the QueueItems)
  runningStreams,
  nextId,          \* the next requestId randomUUID will return
  req,             \* requestId -> the closure of its run action
  started,         \* requestIds in the order runQueue called their run()
  calls,           \* requestId -> number of client.streamChat calls made
  cancelled,       \* requestId -> how the cancel_chat that removed its
                   \* controller found it: "no", "queued" or "running"
  events,          \* requestId -> the ai:stream events sent for it
  effects,         \* requestId -> what its run() did on settling, in
                   \* program order: ledger writes and the done event
  sse,             \* the response body one provider call is decoding
  peer,            \* the response body of a call running beside it
  decoder,         \* the bytes the module's TextDecoder holds back: the
                   \* start of a character whose end it has not seen
  probe,           \* the test_connection call in flight, and the message
                   \* the last one returned
  ret              \* what this step returned or threw to its IPC caller

dispatcherVars ==
  << settings, apiKeys, clock, activeStreams, aborted, queue,
     runningStreams, nextId, req, started, calls, cancelled, events,
     effects, ret >>
vars == << dispatcherVars, sse, peer, decoder, probe >>

\* a step that is no IPC call (timer, network, promise continuation)
NoCall == "internal"

Today == Calendar[clock]

Init ==
  /\ settings = DEFAULT_SETTINGS
  /\ apiKeys = [p \in Providers |-> ""]
  /\ clock = Len(Calendar) - 1
  /\ activeStreams = EmptyMap
  /\ aborted = [i \in Ids |-> FALSE]
  /\ queue = << >>
  /\ runningStreams = 0
  /\ nextId = 1
  /\ req = EmptyMap
  /\ started = << >>
  /\ calls = [i \in Ids |-> 0]
  /\ cancelled = [i \in Ids |-> "no"]
  /\ events = [i \in Ids |-> << >>]
  /\ effects = [i \in Ids |-> << >>]
  /\ sse = NoStream
  /\ peer = NoStream
  /\ decoder = << >>
  /\ probe = NoProbe
  /\ ret = NoCall

\* ------------------------------------------------------------ runQueue
\* a drain loop that lets one request too many through
CanStartOffByOne(running, q) ==
  running <= MAX_CONCURRENT_STREAMS /\ Len(q) > 0

\* a drain loop that starts nothing once the budget is spent
CanStartWithinBudget(running, q) ==
  /\ running < MAX_CONCURRENT_STREAMS /\ Len(q) > 0
  /\ settings.usage.estimatedCostUsd < settings.ai.monthlyBudgetUsd

\* the loop condition of runQueue
CanStart(running, q) == running < MAX_CONCURRENT_STREAMS /\ Len(q) > 0

\* queue.pop() where the code has queue.shift()
DequeueLast(q) ==
  [next |-> q[Len(q)], rest |-> SubSeq(q, 1, Len(q) - 1)]

\* queue.shift()
Dequeue(q) == [next |-> Head(q), rest |-> Tail(q)]

\* a run() that arms no timer
StartRunNoTimer(r) == [r EXCEPT !.state = "fetch", !.attempt = 1]

\* the synchronous prefix of run(): the timer is armed and streamWithRetry
\* makes attempt 1 of client.streamChat, whose fetch is now in flight
StartRun(r) == [r EXCEPT !.state = "fetch", !.attempt = 1, !.timer = TRUE]

\* runQueue on the dispatcher state d = [queue, activeStreams,
\* runningStreams, req, started, calls]
RECURSIVE RunQueue(_)
RunQueue(d) ==
  IF CanStart(d.runningStreams, d.queue)
    THEN LET next == Dequeue(d.queue).next
             rest == Dequeue(d.queue).rest
         IN  IF next \notin DOMAIN d.activeStreams
               THEN RunQueue([d EXCEPT !.queue = rest])
               ELSE RunQueue([d EXCEPT !.queue = rest,
                                       !.activeStreams[next] = FALSE,
                                       !.runningStreams = @ + 1,
                                       !.req[next] = StartRun(@),
                                       !.calls[next] = @ + 1,
                                       !.started = Append(@, next)])
    ELSE d

Dispatcher ==
  [queue |-> queue, activeStreams |-> activeStreams,
   runningStreams |-> runningStreams, req |-> req, started |-> started,
   calls |-> calls]

SetDispatcher(d) ==
  /\ queue' = d.queue
  /\ activeStreams' = d.activeStreams
  /\ runningStreams' = d.runningStreams
  /\ req' = d.req
  /\ started' = d.started
  /\ calls' = d.calls

\* String.prototype.trim on the strings the model uses
Trim(key) == IF key = "  " THEN "" ELSE key

\* -------------------------------------------------------- ai:start-chat
\* a start_chat that looks the key up under the configured provider only
ResolveProviderIgnoresOverride(request, st) == st.ai.provider

\* request.providerOverride ?? settings.ai.provider
ResolveProvider(request, st) ==
  IF request.providerOverride # None THEN request.providerOverride
                                     ELSE st.ai.provider

\* modelOverride?.trim(), falling back to settings.ai.model when empty
ResolveModel(request, st) ==
  IF request.modelOverride # None /\ Trim(request.modelOverride) # ""
    THEN Trim(request.modelOverride)
    ELSE st.ai.model

\* a budget gate that admits a request at exactly the budget
BudgetReachedStrict(st) ==
  st.usage.estimatedCostUsd > st.ai.monthlyBudgetUsd

\* the admission test of the budget gate
BudgetReached(st) == st.usage.estimatedCostUsd >= st.ai.monthlyBudgetUsd

MissingKey(apiKey) == apiKey = ""

Requests ==
  [providerOverride : Providers \cup {None},
   modelOverride : {None, "  ", "local-model"},
   feature : Features]

\* what the handlers return or throw
MissingCredential == "No API key configured"
BudgetExceeded == "Monthly AI budget reached"
Accepted == "{requestId}"
CancelOk == "{ok: true}"
Saved == "{settings, hasApiKey, availableModels}"

\* the closure start_chat builds for run(): the settings snapshot, the
\* resolved provider and model, the key, and where streamWithRetry stands
\* (its attempt, the delays it has awaited, the error it caught last)
NewRun(request, st, provider, model, apiKey) ==
  [settings |-> st,
   provider |-> provider, model |-> model, apiKey |-> apiKey,
   monthlyBudgetUsd |-> st.ai.monthlyBudgetUsd,
   feature |-> request.feature,
   state |-> "notStarted", attempt |-> 0, delays |-> << >>,
   lastError |-> [kind |-> None, status |-> 0],
   timer |-> FALSE]

\* the events sent on "ai:stream", all with the fields of the done event
NoError == << None, 0 >>
NoUsage == EmptyUsage(None)
QueuedEvent ==
  [type |-> "queued", error |-> NoError, usage |-> NoUsage,
   budgetReached |-> FALSE, budgetWarning |-> FALSE]
TokenEvent ==
  [type |-> "token", error |-> NoError, usage |-> NoUsage,
   budgetReached |-> FALSE, budgetWarning |-> FALSE]

\* a busy test that lets one request more through unannounced
AtCapacityOffByOne(running) == running > MAX_CONCURRENT_STREAMS

\* start_chat's test for "AI is busy"
AtCapacity(running) == running >= MAX_CONCURRENT_STREAMS

StartChat(request, cap) ==
  LET st == settings
      provider == ResolveProvider(request, st)
      model == ResolveModel(request, st)
      apiKey == apiKeys[provider]
      requestId == nextId
  IN
  IF MissingKey(apiKey)
    THEN /\ ret' = MissingCredential
         /\ UNCHANGED << settings, apiKeys, clock, activeStreams, aborted,
                         queue, runningStreams, nextId, req, started, calls,
                         cancelled, events, effects, sse, peer, decoder, probe >>
  ELSE IF BudgetReached(st)
    THEN /\ ret' = BudgetExceeded
         /\ UNCHANGED << settings, apiKeys, clock, activeStreams, aborted,
                         queue, runningStreams, nextId, req, started, calls,
                         cancelled, events, effects, sse, peer, decoder, probe >>
  ELSE
    /\ nextId <= cap
    /\ nextId' = nextId + 1
    /\ LET d0 == [Dispatcher EXCEPT
                    !.activeStreams = MapPut(@, requestId, TRUE),
                    !.req = MapPut(@, requestId,
                                   NewRun(request, st, provider, model, apiKey)),
                    !.queue = Append(@, requestId)]
       IN  IF AtCapacity(runningStreams)
             THEN /\ SetDispatcher(d0)
                  /\ events' = [events EXCEPT ![requestId] = Append(@, QueuedEvent)]
             ELSE /\ SetDispatcher(RunQueue(d0))
                  /\ events' = events
    /\ ret' = Accepted
    /\ UNCHANGED << settings, apiKeys, clock, aborted, cancelled, effects, sse, peer, decoder, probe >>

\* ------------------------------------------------------- ai:cancel-chat
\* queue.findIndex + splice(index, 1): the first item with that id goes
RECURSIVE RemoveFirst(_, _)
RemoveFirst(q, id) ==
  IF q = << >> THEN << >>
  ELSE IF Head(q) = id THEN Tail(q)
  ELSE << Head(q) >> \o RemoveFirst(Tail(q), id)

InQueue(q, id) == \E i \in 1..Len(q) : q[i] = id

\* a cancel_chat that aborts the signal but leaves the controller and
\* the queue item in place
CancelChatAbortOnly(requestId) ==
  /\ IF requestId \in DOMAIN activeStreams
       THEN /\ aborted' = [aborted EXCEPT ![requestId] = TRUE]
            /\ cancelled' = [cancelled EXCEPT ![requestId] =
                               IF InQueue(queue, requestId) THEN "queued"
                                                            ELSE "running"]
       ELSE UNCHANGED << aborted, cancelled >>
  /\ ret' = CancelOk
  /\ UNCHANGED << settings, apiKeys, clock, activeStreams, queue,
                  runningStreams, nextId, req, started, calls, events, effects, sse, peer, decoder, probe >>

\* a cancel_chat that gives the slot back itself, whatever it was handed
CancelChatReleasesSlot(requestId) ==
  /\ IF requestId \in DOMAIN activeStreams
       THEN /\ aborted' = [aborted EXCEPT ![requestId] = TRUE]
            /\ activeStreams' = MapDel(activeStreams, requestId)
            /\ cancelled' = [cancelled EXCEPT ![requestId] =
                               IF InQueue(queue, requestId) THEN "queued"
                                                            ELSE "running"]
       ELSE UNCHANGED << aborted, activeStreams, cancelled >>
  /\ queue' = RemoveFirst(queue, requestId)
  /\ req' = IF InQueue(queue, requestId) THEN MapDel(req, requestId) ELSE req
  /\ runningStreams' = Max(0, runningStreams - 1)
  /\ ret' = CancelOk
  /\ UNCHANGED << settings, apiKeys, clock, nextId, started, calls, events, effects, sse, peer, decoder, probe >>

\* req holds the closures that are still referenced: a QueueItem spliced
\* out of the queue takes its run closure with it
CancelChat(requestId) ==
  /\ IF requestId \in DOMAIN activeStreams
       THEN /\ aborted' = [aborted EXCEPT ![requestId] = TRUE]
            /\ activeStreams' = MapDel(activeStreams, requestId)
       ELSE UNCHANGED << aborted, activeStreams >>
  /\ queue' = RemoveFirst(queue, requestId)
  /\ req' = IF InQueue(queue, requestId) THEN MapDel(req, requestId) ELSE req
  /\ cancelled' = IF requestId \in DOMAIN activeStreams
                    THEN [cancelled EXCEPT ![requestId] =
                            IF InQueue(queue, requestId) THEN "queued"
                                                         ELSE "running"]
                    ELSE cancelled
  /\ ret' = CancelOk
  /\ UNCHANGED << settings, apiKeys, clock, runningStreams, nextId,
                  started, calls, events, effects, sse, peer, decoder, probe >>

\* ------------------------------------------------------- ai:save-config
SaveConfig(payload) ==
  /\ settings' = [settings EXCEPT !.ai = payload.settings]
  /\ apiKeys' = IF payload.apiKey # None
                  THEN [apiKeys EXCEPT ![payload.settings.provider] =
                                          Trim(payload.apiKey)]
                  ELSE apiKeys
  /\ ret' = Saved
  /\ cancelled' = cancelled
  /\ UNCHANGED << clock, activeStreams, aborted, queue, runningStreams,
                  nextId, req, started, calls, events, effects, sse, peer, decoder, probe >>

\* the wall clock passes midnight
Tick ==
  /\ clock < Len(Calendar)
  /\ clock' = clock + 1
  /\ ret' = NoCall
  /\ cancelled' = cancelled
  /\ UNCHANGED << settings, apiKeys, activeStreams, aborted, queue,
                  runningStreams, nextId, req, started, calls, events, effects, sse, peer, decoder, probe >>

\* ------------------------------------------------------------ AIService
\* estimateCost(model, promptTokens = 0, completionTokens = 0), in
\* micro-dollars
EstimateCost(model, promptTokens, completionTokens) ==
  IF model \notin DOMAIN ESTIMATED_COSTS THEN 0
  ELSE ToFixed6(promptTokens * ESTIMATED_COSTS[model].promptPerMTok
                + completionTokens * ESTIMATED_COSTS[model].completionPerMTok)

\* result.usage?.promptTokens and result.usage?.completionTokens with the
\* default 0 of estimateCost's parameters and of run()'s ?? 0
CountOf(providerUsage, field) ==
  IF providerUsage.reported /\ field \in DOMAIN providerUsage
    THEN providerUsage[field] ELSE 0

\* what AIService.streamChat resolves to for the usage the provider gave
StreamChatResult(model, providerUsage) ==
  LET p == CountOf(providerUsage, "promptTokens")
      c == CountOf(providerUsage, "completionTokens")
  IN  [estimatedCostUsd |-> EstimateCost(model, p, c),
       promptTokens |-> p, completionTokens |-> c]

\* errors a provider client call rejects with
ProviderRequestError(status) == [kind |-> "provider", status |-> status]
NetworkError == [kind |-> "network", status |-> 0]
DecodeError == [kind |-> "decode", status |-> 0]
HttpStatuses == {401, 404, 429, 500, 503}

\* error.message as it reaches the done event
Message(error) ==
  IF error.kind = "provider" THEN << "provider request failed", error.status >>
  ELSE IF error.kind = "network" THEN << "fetch failed", 0 >>
  ELSE IF error.kind = "abort" THEN << "This operation was aborted", 0 >>
  ELSE << "Unexpected token in JSON", 0 >>
Canceled == << "Request canceled", 0 >>

\* what fetch and reader.read() reject with once the signal is aborted
AbortError == [kind |-> "abort", status |-> 0]

\* a catch block that never looks at the signal
ThrownIgnoresSignal(error, signalAborted) == Message(error)

\* the message of the error streamWithRetry throws when it gives up:
\* "Request canceled" if the signal is aborted, else the error it caught
Thrown(error, signalAborted) ==
  IF signalAborted THEN Canceled ELSE Message(error)

\* a retry loop that retries every provider error
IsRetryableAnyStatus(error) == error.kind = "provider" /\ error.status >= 400

\* streamWithRetry's classification of a thrown error
IsRetryable(error) ==
  error.kind = "provider" /\ (error.status = 429 \/ error.status >= 500)

\* a retry loop that gives up one attempt late
RethrowsLate(error, attempt) ==
  ~IsRetryable(error) \/ attempt > maxAttempts

\* whether streamWithRetry rethrows the error of this attempt
Rethrows(error, attempt) == ~IsRetryable(error) \/ attempt = maxAttempts

BackoffMs(attempt) == Min(1000 * Pow2(attempt - 1), 4000)

\* ------------------------------------------------- run(): usage ledger
PeriodKey(date) == date.ym
DayKey(date) == << date.ym, date.d >>
FeatureOf(r) == IF r.feature = None THEN "chat" ELSE r.feature

\* a ledger that never rolls over
CurrentUsageNoRollover(latestUsage, periodKey) == latestUsage

\* the usage the update starts from: the stored one if it is of the
\* current period, else a fresh one
CurrentUsage(latestUsage, periodKey) ==
  IF latestUsage.periodKey = periodKey
    THEN latestUsage
    ELSE EmptyUsage(periodKey)

NextUsage(latestUsage, result, date, feature) ==
  LET periodKey == PeriodKey(date)
      dayKey == DayKey(date)
      usage == CurrentUsage(latestUsage, periodKey)
  IN  [periodKey |-> periodKey,
       promptTokens |-> usage.promptTokens + result.promptTokens,
       completionTokens |-> usage.completionTokens + result.completionTokens,
       estimatedCostUsd |->
         ToFixed4(usage.estimatedCostUsd + result.estimatedCostUsd),
       daily |->
         MapPut(usage.daily, dayKey,
                ToFixed4(MapGet(usage.daily, dayKey, 0) + result.estimatedCostUsd)),
       featureCosts |->
         MapPut(usage.featureCosts, feature,
                ToFixed4(MapGet(usage.featureCosts, feature, 0)
                         + result.estimatedCostUsd))]

\* a run() that works on the settings it read at submission
ReadAtSubmission(stored, atSubmission) == atSubmission

\* const latest = settingsStore.read(), after streamChat has resolved
ReadLatest(stored, atSubmission) == stored

\* settingsStore.write({ ...latest, usage: nextUsage })
LedgerWrite(latest, nextUsage) == [latest EXCEPT !.usage = nextUsage]

\* a run() that compares with the budget stored when it ends
BudgetThresholdLatest(r, latest) == latest.ai.monthlyBudgetUsd

\* settings.ai.monthlyBudgetUsd in run(): settings is the constant that
\* start_chat read before it built the closure
BudgetThreshold(r, latest) == r.monthlyBudgetUsd

\* the terminal events of run()
SuccessEvent(nextUsage, budget) ==
  [type |-> "done", error |-> NoError, usage |-> nextUsage,
   budgetReached |-> nextUsage.estimatedCostUsd >= budget,
   budgetWarning |-> nextUsage.estimatedCostUsd * 10 >= budget * 8]

ErrorEvent(message) ==
  [type |-> "done", error |-> message, usage |-> NoUsage,
   budgetReached |-> FALSE, budgetWarning |-> FALSE]

\* a completion that keeps the slot
ReleaseNothing(running) == running

\* what the completion of a run does to runningStreams
Release(running) == Max(0, running - 1)

\* a run() that sends its terminal event from the try block and again
\* from the catch block
SettleDoneTwice(id, doneEvent, d) ==
  /\ events' = [events EXCEPT ![id] = Append(Append(@, doneEvent), doneEvent)]
  /\ SetDispatcher(RunQueue(
       [d EXCEPT
          !.activeStreams = MapDel(@, id),
          !.req = MapDel(@, id),
          !.runningStreams = Release(@)]))

\* run()'s terminal event, its finally block, and the .finally callback
\* runQueue attached: clearTimeout, activeStreams.delete, the decrement,
\* runQueue again
Settle(id, doneEvent, d) ==
  /\ events' = [events EXCEPT ![id] = Append(@, doneEvent)]
  /\ SetDispatcher(RunQueue(
       [d EXCEPT
          !.activeStreams = MapDel(@, id),
          !.req = MapDel(@, id),
          !.runningStreams = Release(@)]))

InFlight(id) == id \in DOMAIN req /\ req[id].state \in {"fetch", "stream"}

\* the entries of effects
NoResult == [estimatedCostUsd |-> 0, promptTokens |-> 0, completionTokens |-> 0]
Wrote(usage, result) ==
  [op |-> "settingsStore.write", usage |-> usage, added |-> result]
SentDone(event) ==
  [op |-> "send done", usage |-> event.usage, added |-> NoResult]

\* a catch block that writes the ledger before it sends its event
FailureEffectsWritesLedger(log, event) ==
  Append(Append(log, Wrote(event.usage, NoResult)), SentDone(event))

\* the catch block of run(): the done event is all it does
FailureEffects(log, event) == Append(log, SentDone(event))

\* the end of the try block of run(): settingsStore.write, then the send
SuccessEffects(log, nextUsage, result, event) ==
  Append(Append(log, Wrote(nextUsage, result)), SentDone(event))

\* a provider client that also throws a ProviderRequestError for an error
\* it meets in the body
ThrowsProviderErrorInBody(r) == r.state \in {"fetch", "stream"}

\* where a provider client throws a ProviderRequestError: at the status
\* check on the response, before it reads the body
ThrowsProviderError(r) == r.state = "fetch"

\* the provider answers the fetch of this attempt with an error status
FetchHttpError(id, status) ==
  /\ id \in DOMAIN req /\ ThrowsProviderError(req[id]) /\ ~aborted[id]
  /\ LET error == ProviderRequestError(status)
         attempt == req[id].attempt
         event == ErrorEvent(Thrown(error, aborted[id]))
     IN  IF Rethrows(error, attempt)
           THEN /\ Settle(id, event, Dispatcher)
                /\ effects' = [effects EXCEPT ![id] = FailureEffects(@, event)]
           ELSE /\ req' = [req EXCEPT ![id].state = "backoff",
                                      ![id].lastError = error,
                                      ![id].delays = Append(@, BackoffMs(attempt))]
                /\ UNCHANGED << activeStreams, queue, runningStreams,
                                started, calls, events, effects >>
  /\ ret' = NoCall
  /\ cancelled' = cancelled
  /\ UNCHANGED << settings, apiKeys, clock, aborted, nextId, sse, peer, decoder, probe >>

\* delay(backoffMs) elapses and the loop makes the next attempt; delay does
\* not watch the signal, so an aborted request makes the attempt too and
\* its fetch rejects at once
BackoffElapsed(id) ==
  /\ id \in DOMAIN req /\ req[id].state = "backoff"
  /\ IF aborted[id]
       THEN LET event == ErrorEvent(Thrown(AbortError, aborted[id]))
            IN  /\ Settle(id, event, [Dispatcher EXCEPT !.calls[id] = @ + 1])
                /\ effects' = [effects EXCEPT ![id] = FailureEffects(@, event)]
       ELSE /\ req' = [req EXCEPT ![id].state = "fetch",
                                  ![id].attempt = @ + 1]
            /\ calls' = [calls EXCEPT ![id] = @ + 1]
            /\ UNCHANGED << activeStreams, queue, runningStreams,
                            started, events, effects >>
  /\ ret' = NoCall
  /\ cancelled' = cancelled
  /\ UNCHANGED << settings, apiKeys, clock, aborted, nextId, sse, peer, decoder, probe >>

\* the provider answers 200 and the body starts streaming
FetchOk(id) ==
  /\ id \in DOMAIN req /\ req[id].state = "fetch" /\ ~aborted[id]
  /\ req' = [req EXCEPT ![id].state = "stream"]
  /\ ret' = NoCall
  /\ cancelled' = cancelled
  /\ UNCHANGED << settings, apiKeys, clock, activeStreams, aborted, queue,
                  runningStreams, nextId, started, calls, events, effects, sse, peer, decoder, probe >>

Tokens(id) == Len(SelectSeq(events[id], LAMBDA e : e.type = "token"))
RECURSIVE TokensUpTo(_)
TokensUpTo(n) == IF n = 0 THEN 0 ELSE Tokens(n) + TokensUpTo(n - 1)
TotalTokens == TokensUpTo(UnknownId - 1)

\* a payload with a non-empty delta reaches onToken
StreamToken(id) ==
  /\ id \in DOMAIN req /\ req[id].state = "stream" /\ ~aborted[id]
  /\ TotalTokens < MaxTokens
  /\ events' = [events EXCEPT ![id] = Append(@, TokenEvent)]
  /\ ret' = NoCall
  /\ cancelled' = cancelled
  /\ UNCHANGED << settings, apiKeys, clock, activeStreams, aborted, queue,
                  runningStreams, nextId, req, started, calls, effects, sse, peer, decoder, probe >>

\* the connection breaks (fetch or reader.read() rejects), or a payload is
\* no JSON (JSON.parse throws): neither is a ProviderRequestError
CallFails(id, error) ==
  /\ InFlight(id) /\ ~aborted[id]
  /\ error.kind = "decode" => req[id].state = "stream"
  /\ LET event == ErrorEvent(Thrown(error, aborted[id]))
     IN  /\ Settle(id, event, Dispatcher)
         /\ effects' = [effects EXCEPT ![id] = FailureEffects(@, event)]
  /\ ret' = NoCall
  /\ cancelled' = cancelled
  /\ UNCHANGED << settings, apiKeys, clock, aborted, nextId, sse, peer, decoder, probe >>

\* the signal was aborted while the call was in flight: fetch or
\* reader.read() rejects and streamWithRetry throws "Request canceled"
CallAborted(id) ==
  /\ InFlight(id) /\ aborted[id]
  /\ LET event == ErrorEvent(Thrown(AbortError, aborted[id]))
     IN  /\ Settle(id, event, Dispatcher)
         /\ effects' = [effects EXCEPT ![id] = FailureEffects(@, event)]
  /\ ret' = NoCall
  /\ cancelled' = cancelled
  /\ UNCHANGED << settings, apiKeys, clock, aborted, nextId, sse, peer, decoder, probe >>

\* the stream ends: streamChat resolves, run() updates the ledger and
\* sends the terminal event
StreamEnd(id, providerUsage) ==
  /\ id \in DOMAIN req /\ req[id].state = "stream" /\ ~aborted[id]
  /\ LET result == StreamChatResult(req[id].model, providerUsage)
         latest == ReadLatest(settings, req[id].settings)
         nextUsage == NextUsage(latest.usage, result, Today, FeatureOf(req[id]))
         event == SuccessEvent(nextUsage, BudgetThreshold(req[id], latest))
     IN  /\ settings' = LedgerWrite(latest, nextUsage)
         /\ Settle(id, event, Dispatcher)
         /\ effects' = [effects EXCEPT ![id] =
                          SuccessEffects(@, nextUsage, result, event)]
  /\ ret' = NoCall
  /\ cancelled' = cancelled
  /\ UNCHANGED << apiKeys, clock, aborted, nextId, sse, peer, decoder, probe >>

\* the REQUEST_TIMEOUT_MS timer of a run fires
Timeout(id) ==
  /\ id \in DOMAIN req /\ req[id].timer /\ ~aborted[id]
  /\ aborted' = [aborted EXCEPT ![id] = TRUE]
  /\ ret' = NoCall
  /\ cancelled' = cancelled
  /\ UNCHANGED << settings, apiKeys, clock, activeStreams, queue,
                  runningStreams, nextId, req, started, calls, events, effects, sse, peer, decoder, probe >>

\* ---------------------------------------------------- ai:test-connection
\* what the handler returns
ConnectionOk == "{ok: true, message: Connection successful}"
ConnectionFailed == "{ok: false, message}"
MissingKeyMessage == << "Missing API key", 0 >>

\* the handler's call of aiService.streamChat has settled and it returns
\* { ok: false, message } from its catch block
ProbeReturnsFailure(message) ==
  /\ probe' = [NoProbe EXCEPT !.message = message]
  /\ ret' = ConnectionFailed

\* a test_connection that stops at the budget gate of start_chat
TestConnectionGated(provider) ==
  /\ probe.state = "idle"
  /\ IF MissingKey(apiKeys[provider])
       THEN /\ probe' = [NoProbe EXCEPT !.message = MissingKeyMessage]
            /\ ret' = ConnectionFailed
     ELSE IF BudgetReached(settings)
       THEN /\ probe' = probe
            /\ ret' = BudgetExceeded
     ELSE /\ probe' = [NoProbe EXCEPT !.state = "fetch", !.provider = provider,
                                      !.attempt = 1]
          /\ ret' = NoCall
  /\ cancelled' = cancelled
  /\ UNCHANGED << settings, apiKeys, clock, activeStreams, aborted, queue,
                  runningStreams, nextId, req, started, calls, events,
                  effects, sse, peer, decoder >>

\* the handler up to its first await: without a key it returns at once,
\* else it arms its own timer and streamWithRetry makes attempt 1
TestConnection(provider) ==
  /\ probe.state = "idle"
  /\ IF MissingKey(apiKeys[provider])
       THEN /\ probe' = [NoProbe EXCEPT !.message = MissingKeyMessage]
            /\ ret' = ConnectionFailed
       ELSE /\ probe' = [NoProbe EXCEPT !.state = "fetch", !.provider = provider,
                                        !.attempt = 1]
            /\ ret' = NoCall
  /\ cancelled' = cancelled
  /\ UNCHANGED << settings, apiKeys, clock, activeStreams, aborted, queue,
                  runningStreams, nextId, req, started, calls, events,
                  effects, sse, peer, decoder >>

\* the provider answers the probe with an error status: streamWithRetry
\* backs off or rethrows
ProbeHttpError(status) ==
  /\ probe.state = "fetch" /\ ~probe.aborted
  /\ LET error == ProviderRequestError(status)
     IN  IF Rethrows(error, probe.attempt)
           THEN ProbeReturnsFailure(Thrown(error, probe.aborted))
           ELSE /\ probe' = [probe EXCEPT !.state = "backoff"]
                /\ ret' = NoCall
  /\ cancelled' = cancelled
  /\ UNCHANGED << settings, apiKeys, clock, activeStreams, aborted, queue,
                  runningStreams, nextId, req, started, calls, events,
                  effects, sse, peer, decoder >>

\* the backoff delay is over: the next attempt, which rejects at once if
\* the timer has fired meanwhile
ProbeBackoffElapsed ==
  /\ probe.state = "backoff"
  /\ IF probe.aborted
       THEN ProbeReturnsFailure(Thrown(AbortError, probe.aborted))
       ELSE /\ probe' = [probe EXCEPT !.state = "fetch", !.attempt = @ + 1]
            /\ ret' = NoCall
  /\ cancelled' = cancelled
  /\ UNCHANGED << settings, apiKeys, clock, activeStreams, aborted, queue,
                  runningStreams, nextId, req, started, calls, events,
                  effects, sse, peer, decoder >>

\* the probe's stream ends: clearTimeout, { ok: true }
ProbeSucceeds ==
  /\ probe.state = "fetch" /\ ~probe.aborted
  /\ probe' = NoProbe
  /\ ret' = ConnectionOk
  /\ cancelled' = cancelled
  /\ UNCHANGED << settings, apiKeys, clock, activeStreams, aborted, queue,
                  runningStreams, nextId, req, started, calls, events,
                  effects, sse, peer, decoder >>

\* the connection breaks or a payload is no JSON
ProbeFails(error) ==
  /\ probe.state = "fetch" /\ ~probe.aborted
  /\ ProbeReturnsFailure(Thrown(error, probe.aborted))
  /\ cancelled' = cancelled
  /\ UNCHANGED << settings, apiKeys, clock, activeStreams, aborted, queue,
                  runningStreams, nextId, req, started, calls, events,
                  effects, sse, peer, decoder >>

\* the handler's own REQUEST_TIMEOUT_MS timer fires
ProbeTimeout ==
  /\ probe.state \in {"fetch", "backoff"} /\ ~probe.aborted
  /\ probe' = [probe EXCEPT !.aborted = TRUE]
  /\ ret' = NoCall
  /\ cancelled' = cancelled
  /\ UNCHANGED << settings, apiKeys, clock, activeStreams, aborted, queue,
                  runningStreams, nextId, req, started, calls, events,
                  effects, sse, peer, decoder >>

\* the aborted probe rejects: "Request canceled"
ProbeAborted ==
  /\ probe.state = "fetch" /\ probe.aborted
  /\ ProbeReturnsFailure(Thrown(AbortError, probe.aborted))
  /\ cancelled' = cancelled
  /\ UNCHANGED << settings, apiKeys, clock, activeStreams, aborted, queue,
                  runningStreams, nextId, req, started, calls, events,
                  effects, sse, peer, decoder >>

\* ---------------------------------------------- providers: SSE decoding
\* Text is a sequence of characters.  The JSON documents a provider sends
\* are written as one letter: "a" is a chunk whose delta content is that
\* letter, "x" is a malformed document.
CR == "\r"
LF == "\n"
DATA == << "d", "a", "t", "a", ":" >>
\* the two bytes of a character outside ASCII, that character, and the
\* character a TextDecoder puts for bytes that are no UTF-8
LEAD == "0xC3"
CONT == "0xA9"
EACUTE == "U+00E9"
REPLACEMENT == "U+FFFD"
DONE == << "[", "D", "O", "N", "E", "]" >>
JsonChunks == { << "a" >>, << EACUTE >>, << REPLACEMENT >> }
Whitespace == { " ", "\t", CR, LF }

At(s, i) == IF i \in 1..Len(s) THEN s[i] ELSE ""

\* where a match of /\r?\n\r?\n/ ("blank") or of /\r?\n/ ("line") that
\* starts at index i of s ends (the index after it), 0 if there is none
MatchEnd(kind, s, i) ==
  LET j == IF At(s, i) = CR THEN i + 1 ELSE i
  IN  IF At(s, j) # LF THEN 0
      ELSE IF kind = "line" THEN j + 1
      ELSE IF At(s, j + 1) = CR /\ At(s, j + 2) = LF THEN j + 3
      ELSE IF At(s, j + 1) = LF THEN j + 2
      ELSE 0

\* String.prototype.split on that pattern: the pieces of s from index
\* start on, the scan standing at index i
RECURSIVE Split(_, _, _, _)
Split(kind, s, i, start) ==
  IF i > Len(s) THEN << SubSeq(s, start, Len(s)) >>
  ELSE IF MatchEnd(kind, s, i) # 0
    THEN << SubSeq(s, start, i - 1) >>
         \o Split(kind, s, MatchEnd(kind, s, i), MatchEnd(kind, s, i))
  ELSE Split(kind, s, i + 1, start)

\* a decoder that hands the unfinished segment on as an event
ParseSSEChunkKeepsNothing(buffer) ==
  [events |-> Split("blank", buffer, 1, 1), rest |-> << >>]

\* parseSSEChunk: lines.pop() is the rest
ParseSSEChunk(buffer) ==
  LET lines == Split("blank", buffer, 1, 1)
  IN  [events |-> SubSeq(lines, 1, Len(lines) - 1), rest |-> lines[Len(lines)]]

\* String.prototype.trim
RECURSIVE TrimStart(_)
TrimStart(s) ==
  IF s # << >> /\ Head(s) \in Whitespace THEN TrimStart(Tail(s)) ELSE s
RECURSIVE TrimEnd(_)
TrimEnd(s) ==
  IF s # << >> /\ s[Len(s)] \in Whitespace
    THEN TrimEnd(SubSeq(s, 1, Len(s) - 1)) ELSE s
TrimText(s) == TrimEnd(TrimStart(s))

StartsWithData(line) == Len(line) >= Len(DATA) /\ SubSeq(line, 1, Len(DATA)) = DATA

\* the payloads of one event: its data: lines, sliced, trimmed, non-empty
DataLines(event) ==
  LET lines == SelectSeq(Split("line", event, 1, 1), StartsWithData)
      sliced == [k \in 1..Len(lines) |->
                   TrimText(SubSeq(lines[k], Len(DATA) + 1, Len(lines[k])))]
  IN  SelectSeq(sliced, LAMBDA payload : payload # << >>)

RECURSIVE PayloadsOf(_)
PayloadsOf(segments) ==
  IF segments = << >> THEN << >>
  ELSE DataLines(Head(segments)) \o PayloadsOf(Tail(segments))

\* the onEvent callback of a provider client: [DONE] is skipped, any other
\* payload goes through JSON.parse, which throws on a malformed one; a
\* non-empty delta goes to onToken.  sawDone and late record that [DONE]
\* was seen and that a token or an error came after it.
OnEvent(s, payload) ==
  IF payload = DONE THEN [s EXCEPT !.sawDone = TRUE]
  ELSE IF payload \in JsonChunks
    THEN [s EXCEPT !.tokens = Append(@, payload[1]), !.late = @ \/ s.sawDone]
  ELSE [s EXCEPT !.state = "failed", !.late = @ \/ s.sawDone]

\* for (const payload of dataLines) onEvent(payload), until one throws
RECURSIVE Deliver(_, _)
Deliver(s, payloads) ==
  IF payloads = << >> \/ s.state = "failed" THEN s
  ELSE Deliver(OnEvent([s EXCEPT !.payloads = Append(@, Head(payloads))],
                       Head(payloads)),
               Tail(payloads))

\* decoder.decode(value, { stream: true }) of a TextDecoder that holds the
\* bytes carry: a lead byte waits for its continuation byte, a
\* continuation byte without a lead byte and a lead byte without a
\* continuation byte become the replacement character
RECURSIVE DecodeFrom(_, _, _)
DecodeFrom(carry, bytes, text) ==
  IF bytes = << >> THEN [text |-> text, carry |-> carry]
  ELSE IF carry = << >>
    THEN IF Head(bytes) = LEAD
           THEN DecodeFrom(<< LEAD >>, Tail(bytes), text)
         ELSE IF Head(bytes) = CONT
           THEN DecodeFrom(<< >>, Tail(bytes), Append(text, REPLACEMENT))
         ELSE DecodeFrom(<< >>, Tail(bytes), Append(text, Head(bytes)))
  ELSE IF Head(bytes) = CONT
    THEN DecodeFrom(<< >>, Tail(bytes), Append(text, EACUTE))
  ELSE DecodeFrom(<< >>, bytes, Append(text, REPLACEMENT))

Decode(carry, bytes) == DecodeFrom(carry, bytes, << >>)

\* one turn of the loop of readSSEStream on the text of the chunk
\* reader.read() gave
Feed(s, chunk) ==
  LET parsed == ParseSSEChunk(s.pending \o chunk)
  IN  Deliver([s EXCEPT !.pending = parsed.rest, !.read = @ + Len(chunk)],
              PayloadsOf(parsed.events))

\* whether a chunk boundary after k characters of body falls inside a
\* blank-line separator
CutsSeparator(body, k) ==
  \E i \in 1..Len(body) :
    MatchEnd("blank", body, i) # 0 /\ i <= k /\ k + 1 < MatchEnd("blank", body, i)

\* readSSEStream has got the reader of a response body
StartStream(body) == [NoStream EXCEPT !.state = "reading", !.body = body]

\* the stream s after reader.read() resolved with its next n bytes, which
\* went through the decoder holding carry
AfterRead(s, n, carry) ==
  [Feed(s, Decode(carry, SubSeq(s.body, s.read + 1, s.read + n)).text)
     EXCEPT !.read = s.read + n,
            !.cut = @ \/ CutsSeparator(s.body, s.read + n)]

\* reader.read() resolves with the next n bytes of the body
ReadChunk(n) ==
  /\ sse.state = "reading"
  /\ sse.read + n <= Len(sse.body)
  /\ sse' = AfterRead(sse, n, decoder)
  /\ decoder' =
       Decode(decoder, SubSeq(sse.body, sse.read + 1, sse.read + n)).carry
  /\ UNCHANGED << dispatcherVars, peer, probe >>

\* a readSSEStream that treats what is left in pending as a last event
ReadDoneFlushes ==
  /\ sse.state = "reading"
  /\ sse.read = Len(sse.body)
  /\ sse' = [Deliver(sse, DataLines(sse.pending)) EXCEPT
               !.state = IF @ = "failed" THEN "failed" ELSE "ended"]
  /\ UNCHANGED << dispatcherVars, peer, decoder, probe >>

\* reader.read() resolves with done: the loop ends, pending is dropped
ReadDone ==
  /\ sse.state = "reading"
  /\ sse.read = Len(sse.body)
  /\ sse' = [sse EXCEPT !.state = "ended"]
  /\ UNCHANGED << dispatcherVars, peer, decoder, probe >>

\* the same two steps of the call that runs beside it
PeerReadChunk(n) ==
  /\ peer.state = "reading"
  /\ peer.read + n <= Len(peer.body)
  /\ peer' = AfterRead(peer, n, decoder)
  /\ decoder' =
       Decode(decoder, SubSeq(peer.body, peer.read + 1, peer.read + n)).carry
  /\ UNCHANGED << dispatcherVars, sse, probe >>

PeerReadDone ==
  /\ peer.state = "reading"
  /\ peer.read = Len(peer.body)
  /\ peer' = [peer EXCEPT !.state = "ended"]
  /\ UNCHANGED << dispatcherVars, sse, decoder, probe >>

\* the signal of the call beside it is aborted between two reads: its
\* loop ends where it stands
PeerAborted ==
  /\ peer.state = "reading"
  /\ peer' = [peer EXCEPT !.state = "aborted"]
  /\ UNCHANGED << dispatcherVars, sse, decoder, probe >>

\* ------------------------------------------------------ specifications
Payloads == [settings : SettingsChoices, apiKey : {None, "  ", "sk-live"}]
ProviderRequests ==
  { r \in Requests : r.modelOverride = None /\ r.feature = None }
PlainRequest == [providerOverride |-> None, modelOverride |-> None, feature |-> None]

Cancellable(id) == id < nextId \/ id = UnknownId

\* a profile in which the user has saved a key for the default provider
InitConfigured ==
  /\ settings = DEFAULT_SETTINGS
  /\ apiKeys = [p \in Providers |-> IF p = "openai" THEN "sk-live" ELSE ""]
  /\ clock = 1
  /\ activeStreams = EmptyMap
  /\ aborted = [i \in Ids |-> FALSE]
  /\ queue = << >>
  /\ runningStreams = 0
  /\ nextId = 1
  /\ req = EmptyMap
  /\ started = << >>
  /\ calls = [i \in Ids |-> 0]
  /\ cancelled = [i \in Ids |-> "no"]
  /\ events = [i \in Ids |-> << >>]
  /\ effects = [i \in Ids |-> << >>]
  /\ sse = NoStream
  /\ peer = NoStream
  /\ decoder = << >>
  /\ probe = NoProbe
  /\ ret = NoCall

\* The dispatcher: MaxReq plain requests, each provider call ending in
\* success, a terminal error, or the abort of its signal.
Next ==
  \/ StartChat(PlainRequest, MaxReq)
  \/ \E id \in 1..UnknownId : Cancellable(id) /\ CancelChat(id)
  \/ \E id \in Ids : FetchOk(id)
  \/ \E id \in Ids : StreamToken(id)
  \/ \E id \in Ids : CallFails(id, NetworkError)
  \/ \E id \in Ids : CallAborted(id)
  \/ \E id \in Ids : StreamEnd(id, NoUsageReported)
  \/ \E id \in Ids : Timeout(id)

Spec == InitConfigured /\ [][Next]_vars

\* Admission and the ledger: a fresh profile, requests with and without a
\* provider override, saved settings and keys, the calendar; provider calls
\* succeed.
NextAdmission ==
  \/ \E request \in ProviderRequests : StartChat(request, MaxAdmitted)
  \/ \E payload \in Payloads : SaveConfig(payload)
  \/ Tick
  \/ \E id \in Ids : FetchOk(id)
  \/ \E id \in Ids, u \in UsageChoices : StreamEnd(id, u)

AdmissionSpec == Init /\ [][NextAdmission]_vars

\* The retry policy: MaxRetried plain requests against a provider that may
\* answer any status, break the connection or send a malformed payload.
NextRetry ==
  \/ StartChat(PlainRequest, MaxRetried)
  \/ \E id \in 1..UnknownId : Cancellable(id) /\ CancelChat(id)
  \/ \E id \in Ids, status \in HttpStatuses : FetchHttpError(id, status)
  \/ \E id \in Ids : BackoffElapsed(id)
  \/ \E id \in Ids : FetchOk(id)
  \/ \E id \in Ids : StreamToken(id)
  \/ \E id \in Ids, error \in {NetworkError, DecodeError} : CallFails(id, error)
  \/ \E id \in Ids : CallAborted(id)
  \/ \E id \in Ids : StreamEnd(id, NoUsageReported)
  \/ \E id \in Ids : Timeout(id)

RetrySpec == InitConfigured /\ [][NextRetry]_vars

\* Start order: MaxOrdered plain requests, so that two of them wait in the
\* queue together; provider calls succeed or are aborted.
NextOrder ==
  \/ StartChat(PlainRequest, MaxOrdered)
  \/ \E id \in 1..UnknownId : Cancellable(id) /\ CancelChat(id)
  \/ \E id \in Ids : FetchOk(id)
  \/ \E id \in Ids : CallAborted(id)
  \/ \E id \in Ids : StreamEnd(id, NoUsageReported)

OrderSpec == InitConfigured /\ [][NextOrder]_vars

\* Work conservation: MaxWorked plain requests, cancels, and the timer of
\* every run; the timer fires unless the run settles first, and an
\* aborted call rejects.
NextWork ==
  \/ StartChat(PlainRequest, MaxWorked)
  \/ \E id \in 1..UnknownId : Cancellable(id) /\ CancelChat(id)
  \/ \E id \in Ids : FetchOk(id)
  \/ \E id \in Ids : CallAborted(id)
  \/ \E id \in Ids : StreamEnd(id, NoUsageReported)
  \/ \E id \in Ids : Timeout(id)

WorkSpec ==
  /\ InitConfigured
  /\ [][NextWork]_vars
  /\ \A id \in Ids : /\ WF_vars(Timeout(id))
                      /\ WF_vars(CallAborted(id))

\* The ledger: MaxBilled requests of either feature running side by side
\* with save_config calls over the days of the calendar; the provider
\* reports usage or none.
FeatureRequests ==
  { r \in Requests : r.providerOverride = None /\ r.modelOverride = None }
LedgerPayloads ==
  { payload \in Payloads :
      payload.apiKey = None /\ payload.settings.provider = "openai" }

NextLedger ==
  \/ \E request \in FeatureRequests : StartChat(request, MaxBilled)
  \/ \E payload \in LedgerPayloads : SaveConfig(payload)
  \/ Tick
  \/ \E id \in Ids : FetchOk(id)
  \/ \E id \in Ids, u \in BilledUsageChoices : StreamEnd(id, u)

LedgerSpec == InitConfigured /\ [][NextLedger]_vars

\* The budget gate: MaxGated plain requests, two of them queued, submitted
\* while the budget is not reached; completions bill the usage the
\* provider reports and may reach the budget saved by save_config.
NextGate ==
  \/ StartChat(PlainRequest, MaxGated)
  \/ \E payload \in LedgerPayloads : SaveConfig(payload)
  \/ \E id \in Ids : FetchOk(id)
  \/ \E id \in Ids, u \in UsageChoices : StreamEnd(id, u)

GateSpec == InitConfigured /\ [][NextGate]_vars

\* The decoder: one response body of up to MaxFrames lines, each a data
\* line followed by a blank line or a line end, read in chunks of any
\* sizes.
BodyLines ==
  { DATA \o << " ", "a" >>, DATA \o << " " >> \o DONE, DATA \o << "x" >> }
Separators == { << LF, LF >>, << CR, LF, CR, LF >>, << LF >> }
Frames == { line \o sep : line \in BodyLines, sep \in Separators }
RECURSIVE BodiesOf(_)
BodiesOf(n) ==
  IF n = 0 THEN { << >> }
  ELSE { << >> } \cup { frame \o body : frame \in Frames, body \in BodiesOf(n - 1) }
Bodies == BodiesOf(MaxFrames)

InitDecoder ==
  /\ settings = DEFAULT_SETTINGS
  /\ apiKeys = [p \in Providers |-> IF p = "openai" THEN "sk-live" ELSE ""]
  /\ clock = 1
  /\ activeStreams = EmptyMap
  /\ aborted = [i \in Ids |-> FALSE]
  /\ queue = << >>
  /\ runningStreams = 0
  /\ nextId = 1
  /\ req = EmptyMap
  /\ started = << >>
  /\ calls = [i \in Ids |-> 0]
  /\ cancelled = [i \in Ids |-> "no"]
  /\ events = [i \in Ids |-> << >>]
  /\ effects = [i \in Ids |-> << >>]
  /\ sse \in { StartStream(body) : body \in Bodies }
  /\ peer = NoStream
  /\ decoder = << >>
  /\ probe = NoProbe
  /\ ret = NoCall

NextDecoder ==
  \/ \E n \in 1..Len(sse.body) : ReadChunk(n)
  \/ ReadDone

DecoderSpec == InitDecoder /\ [][NextDecoder]_vars

\* Two calls at once: each reads a body of one data line, whose payload
\* may be a character of two bytes, in chunks of any sizes and in any
\* interleaving with the other; the second may be aborted.
ByteBodies ==
  { DATA \o << " ", LEAD, CONT, LF, LF >>, DATA \o << " ", "a", LF, LF >> }

InitShared ==
  /\ settings = DEFAULT_SETTINGS
  /\ apiKeys = [p \in Providers |-> IF p = "openai" THEN "sk-live" ELSE ""]
  /\ clock = 1
  /\ activeStreams = EmptyMap
  /\ aborted = [i \in Ids |-> FALSE]
  /\ queue = << >>
  /\ runningStreams = 0
  /\ nextId = 1
  /\ req = EmptyMap
  /\ started = << >>
  /\ calls = [i \in Ids |-> 0]
  /\ cancelled = [i \in Ids |-> "no"]
  /\ events = [i \in Ids |-> << >>]
  /\ effects = [i \in Ids |-> << >>]
  /\ sse \in { StartStream(body) : body \in ByteBodies }
  /\ peer \in { StartStream(body) : body \in ByteBodies }
  /\ decoder = << >>
  /\ probe = NoProbe
  /\ ret = NoCall

NextShared ==
  \/ \E n \in 1..Len(sse.body) : ReadChunk(n)
  \/ ReadDone
  \/ \E n \in 1..Len(peer.body) : PeerReadChunk(n)
  \/ PeerReadDone
  \/ PeerAborted

SharedSpec == InitShared /\ [][NextShared]_vars

\* Failures: MaxFailed plain requests, one of them queued.  The provider
\* answers the requests that occupy the two slots first with 503 or with
\* a malformed payload, or stays silent until their timer fires; it
\* serves the others.
Faulty == 1..MAX_CONCURRENT_STREAMS

NextFailure ==
  \/ StartChat(PlainRequest, MaxFailed)
  \/ \E id \in Faulty : FetchHttpError(id, 503)
  \/ \E id \in Ids : BackoffElapsed(id)
  \/ \E id \in Ids : FetchOk(id)
  \/ \E id \in Ids : StreamToken(id)
  \/ \E id \in Faulty : CallFails(id, DecodeError)
  \/ \E id \in Ids : CallAborted(id)
  \/ \E id \in Ids : StreamEnd(id, NoUsageReported)
  \/ \E id \in Faulty : Timeout(id)

FailureSpec == InitConfigured /\ [][NextFailure]_vars

\* Terminal events: MaxSettled plain requests over the change of month;
\* a call ends with billed usage or none, with a provider error that is
\* not retried, a malformed payload, its timer, or a cancel.
NextSettle ==
  \/ StartChat(PlainRequest, MaxSettled)
  \/ \E id \in 1..UnknownId : Cancellable(id) /\ CancelChat(id)
  \/ Tick
  \/ \E id \in Ids : FetchHttpError(id, 401)
  \/ \E id \in Ids : FetchOk(id)
  \/ \E id \in Ids : CallFails(id, DecodeError)
  \/ \E id \in Ids : CallAborted(id)
  \/ \E id \in Ids, u \in UsageChoices : StreamEnd(id, u)
  \/ \E id \in Ids : Timeout(id)

SettleSpec == InitConfigured /\ [][NextSettle]_vars

\* test_connection beside the dispatcher: MaxProbed plain requests that
\* bill their usage, a save_config that lowers the budget, and one
\* connection test at a time against a provider that may answer 503,
\* send a malformed payload or stay silent.
NextProbe ==
  \/ StartChat(PlainRequest, MaxProbed)
  \/ \E payload \in LedgerPayloads : SaveConfig(payload)
  \/ \E id \in Ids : FetchOk(id)
  \/ \E id \in Ids, u \in UsageChoices : StreamEnd(id, u)
  \/ \E provider \in Providers : TestConnection(provider)
  \/ ProbeHttpError(503)
  \/ ProbeBackoffElapsed
  \/ ProbeSucceeds
  \/ ProbeFails(DecodeError)
  \/ ProbeTimeout
  \/ ProbeAborted

ProbeSpec == InitConfigured /\ [][NextProbe]_vars

\* Cost: MaxCosted requests with and without a model override, under the
\* default model or the one save_config stored; the provider reports
\* usage, part of it, or none.
ModelRequests ==
  { r \in Requests : r.providerOverride = None /\ r.feature = None }

NextCost ==
  \/ \E request \in ModelRequests : StartChat(request, MaxCosted)
  \/ \E payload \in LedgerPayloads : SaveConfig(payload)
  \/ \E id \in Ids : FetchOk(id)
  \/ \E id \in Ids, u \in CostUsageChoices : StreamEnd(id, u)

CostSpec == InitConfigured /\ [][NextCost]_vars

\* Timeouts: MaxTimed plain requests against a provider that may fail with
\* 503 or stay silent for ever.  The runtime is fair to what it
\* owes the program: an armed timer fires, a delay elapses, and a fetch or
\* read on an aborted signal rejects.  Nothing obliges the provider.
NextTimed ==
  \/ StartChat(PlainRequest, MaxTimed)
  \/ \E id \in Ids : FetchHttpError(id, 503)
  \/ \E id \in Ids : BackoffElapsed(id)
  \/ \E id \in Ids : CallAborted(id)
  \/ \E id \in Ids : Timeout(id)

TimedSpec ==
  /\ InitConfigured
  /\ [][NextTimed]_vars
  /\ \A id \in Ids : /\ WF_vars(Timeout(id))
                      /\ WF_vars(BackoffElapsed(id))
                      /\ WF_vars(CallAborted(id))

\* ============================================================== claims
\* what the claims observe
Issued(id) == id < nextId
RunActive(id) == id \in DOMAIN req /\ req[id].state # "notStarted"
RunStarted(id) == \E i \in 1..Len(started) : started[i] = id
StartIndex(id) == CHOOSE i \in 1..Len(started) : started[i] = id
HasDone(id) == \E i \in 1..Len(events[id]) : events[id][i].type = "done"
DoneIndex(id) ==
  (CHOOSE i \in 1..Len(events[id]) : events[id][i].type = "done")
DispatcherFrame ==
  << nextId, activeStreams, queue, runningStreams, req, started, calls,
     events >>

\* C1: the number of run actions that have started and not yet settled
\* never exceeds MAX_CONCURRENT_STREAMS = 2.
C1_BoundedConcurrency ==
  Cardinality({ id \in Ids : RunActive(id) }) <= 2

\* two runs are active while a third accepted request waits in the queue
C1_Witness ==
  /\ Cardinality({ id \in Ids : RunActive(id) }) = 2
  /\ Len(queue) > 0

\* C2: if start_chat accepted A before B and A was not cancelled while
\* queued, then once B's run has started A's run has started before it,
\* whatever runs have completed in between.
C2_FifoStartOrder ==
  \A a, b \in Ids :
    (a < b /\ Issued(b) /\ RunStarted(b) /\ cancelled[a] # "queued")
      => (RunStarted(a) /\ StartIndex(a) < StartIndex(b))

\* all four runs started, the second completed while the first still runs
C2_Witness ==
  /\ Len(started) = 4
  /\ HasDone(2)
  /\ RunActive(1)

\* C3: a request cancelled while it waited in the queue never runs: no
\* provider call, no timer, no token event, also after slots free up.
C3_CancelledInQueueNeverRuns ==
  \A id \in Ids :
    cancelled[id] = "queued"
      => /\ calls[id] = 0
         /\ ~RunStarted(id)
         /\ ~InQueue(queue, id)
         /\ id \in DOMAIN req => ~req[id].timer
         /\ \A i \in 1..Len(events[id]) : events[id][i].type = "queued"

\* a request was cancelled in the queue and a slot has become free since
C3_Witness ==
  \E id \in Ids :
    /\ cancelled[id] = "queued"
    /\ runningStreams < MAX_CONCURRENT_STREAMS
    /\ \E other \in Ids : HasDone(other)

\* C4: cancel_chat on an id that was never issued, has terminated or was
\* already cancelled returns {ok:true} and changes nothing: no event, and
\* the controller map, the queue, runningStreams and the ledger stay.
NothingToCancel(id) ==
  id = UnknownId \/ HasDone(id) \/ cancelled[id] # "no"

C4_CancelIsIdempotent ==
  [][ \A id \in 1..UnknownId :
        (NothingToCancel(id) /\ CancelChat(id))
          => /\ ret' = CancelOk
             /\ UNCHANGED << activeStreams, queue, runningStreams, settings,
                             events, aborted, req, calls, started >> ]_vars

\* the only request issued was cancelled while running and has terminated,
\* and the step just taken is a cancel_chat
C4_Witness ==
  /\ nextId = 2
  /\ cancelled[1] = "running"
  /\ HasDone(1)
  /\ ret = CancelOk

\* C5: every request start_chat accepted is sent a done=true event.  A run
\* is the only sender of that event, so the claim requires that a request
\* which is neither queued nor running any more has been sent it.
C5_AcceptedRequestsGetDone ==
  \A id \in Ids : (Issued(id) /\ id \notin DOMAIN req) => HasDone(id)

\* C6: a request is sent at most one done=true event, and no token or
\* queued event after it: a done event is the last event of its request.
C6_DoneIsLast ==
  \A id \in Ids :
    \A i \in 1..Len(events[id]) :
      events[id][i].type = "done" => i = Len(events[id])

\* a request was queued, streamed a token and terminated
C6_Witness ==
  \E id \in Ids :
    /\ Len(events[id]) = 3
    /\ events[id][1].type = "queued"
    /\ events[id][2].type = "token"
    /\ events[id][3].type = "done"

StartChatOutcomes == {Accepted, MissingCredential, BudgetExceeded}
OverBudget == settings.usage.estimatedCostUsd >= settings.ai.monthlyBudgetUsd
WantedProvider(r) ==
  IF r.providerOverride # None THEN r.providerOverride
                               ELSE settings.ai.provider

\* C7 as claimed: whenever the stored estimatedCostUsd >= monthlyBudgetUsd
\* at submission, start_chat fails with the budget error and has no effect.
C7_OverBudgetAlwaysBudgetError ==
  [][ (ret' \in StartChatOutcomes /\ OverBudget)
        => (ret' = BudgetExceeded /\ UNCHANGED DispatcherFrame) ]_vars

\* C7 as amended: whenever the stored estimatedCostUsd >= monthlyBudgetUsd
\* at submission, start_chat fails without any effect: with the budget
\* error if a key is stored for the resolved provider, with the
\* missing-credential error if none is.
C7_OverBudgetRejected ==
  [][ \A r \in ProviderRequests :
        (StartChat(r, MaxAdmitted) /\ OverBudget)
          => /\ ret' = IF apiKeys[WantedProvider(r)] = ""
                         THEN MissingCredential ELSE BudgetExceeded
             /\ UNCHANGED DispatcherFrame ]_vars

\* start_chat has just been refused by the budget gate
C7_Witness ==
  /\ ret = BudgetExceeded
  /\ OverBudget

\* C8: the key is looked up for providerOverride when set, else for the
\* configured provider; without a key for that provider start_chat fails
\* with the missing-credential error and has no effect.
C8_MissingCredential ==
  [][ \A r \in ProviderRequests :
        (StartChat(r, MaxAdmitted) /\ apiKeys[WantedProvider(r)] = "")
          => /\ ret' = MissingCredential
             /\ UNCHANGED DispatcherFrame ]_vars

\* start_chat has just been refused for want of a key although a key is
\* stored for another provider
C8_Witness ==
  /\ ret = MissingCredential
  /\ \E p \in Providers : apiKeys[p] # ""

\* C9: start_chat fails with BudgetExceeded only for spend of the current
\* calendar month: when it is refused by the budget gate the stored
\* periodKey is the current month.
C9_BudgetGateIsPerPeriod ==
  ret = BudgetExceeded => settings.usage.periodKey = PeriodKey(Today)

\* C10: at most 3 provider calls per request; 1000 ms before attempt 2,
\* 2000 ms before attempt 3, no other delay; nothing after a failure of
\* attempt 3.
C10_RetrySchedule ==
  \A id \in Ids :
    /\ calls[id] <= 3
    /\ id \in DOMAIN req =>
         LET r == req[id] IN
         /\ calls[id] = r.attempt
         /\ r.state = "backoff" => r.attempt <= 2 /\ Len(r.delays) = r.attempt
         /\ r.state \in {"fetch", "stream"} => Len(r.delays) = r.attempt - 1
         /\ r.delays = SubSeq(<< 1000, 2000 >>, 1, Len(r.delays))

\* a request failed with 503 on its third call
C10_Witness ==
  \E id \in Ids :
    /\ calls[id] = 3
    /\ HasDone(id)
    /\ DoneIndex(id) > 0
    /\ events[id][DoneIndex(id)].error = Message(ProviderRequestError(503))

\* the terminal event of a request, once it has been sent
DoneEvent(id) == events[id][DoneIndex(id)]

\* C11: attempt k+1 is made only after attempt k failed with a provider
\* error of status 429 or >= 500; a 401, another 4xx, a malformed payload
\* or a network error ends the request after that attempt, with that error
\* as the error of its done event.
C11_OnlyRetryableIsRetried ==
  [][ \A id \in Ids :
        /\ (calls[id] > 0 /\ calls'[id] > calls[id])
             => /\ req[id].state = "backoff"
                /\ req[id].lastError.kind = "provider"
                /\ (req[id].lastError.status = 429
                      \/ req[id].lastError.status >= 500)
        /\ \A status \in HttpStatuses :
             (FetchHttpError(id, status) /\ status # 429 /\ status < 500)
               => /\ HasDone(id)'
                  /\ DoneEvent(id)'.error = Message(ProviderRequestError(status))
                  /\ calls'[id] = calls[id]
        /\ \A error \in {NetworkError, DecodeError} :
             CallFails(id, error)
               => /\ HasDone(id)'
                  /\ DoneEvent(id)'.error = Message(error)
                  /\ calls'[id] = calls[id] ]_vars

\* a request was retried after a 429 and then ended by a 404 on its
\* second attempt
C11_Witness ==
  \E id \in Ids :
    /\ calls[id] = 2
    /\ HasDone(id)
    /\ DoneEvent(id).error = Message(ProviderRequestError(404))

\* whether run() of this request wrote the usage ledger
WroteLedger(id) ==
  \E i \in 1..Len(effects[id]) : effects[id][i].op = "settingsStore.write"

\* C12: a request whose signal was aborted (by cancel_chat or by the
\* timer) before its provider call settled ends with the canceled error:
\* never with a success event and a ledger write, never with a provider
\* error message.
C12_AbortedEndsCanceled ==
  \A id \in Ids :
    (aborted[id] /\ HasDone(id))
      => /\ DoneEvent(id).error = Canceled
         /\ ~WroteLedger(id)

\* a request whose first attempt failed was cancelled by cancel_chat
\* before its second call settled, and has terminated
C12_Witness ==
  \E id \in Ids :
    /\ aborted[id]
    /\ HasDone(id)
    /\ calls[id] = 2
    /\ cancelled[id] = "running"

\* C13: once the signal of a request is aborted, streamWithRetry starts no
\* further client.streamChat call for it, also when the abort falls into a
\* pending backoff delay.
C13_NoCallAfterAbort ==
  [][ \A id \in Ids : aborted[id] => calls'[id] = calls[id] ]_vars

\* run() of a request has settled: done sent, controller and closure gone
Settled(id) ==
  HasDone(id) /\ id \notin DOMAIN activeStreams /\ id \notin DOMAIN req

\* runQueue has nothing left to start
Drained == queue = << >> \/ runningStreams >= MAX_CONCURRENT_STREAMS

\* C14: every request whose run has started eventually settles (done sent,
\* controller removed, slot given back, queue drained again), even if the
\* provider never answers, because the timer armed by run() aborts it.
C14_StartedRunsSettle ==
  \A id \in Ids : RunStarted(id) ~> (Settled(id) /\ Drained)

\* a request nobody cancelled was aborted by its timer and has settled,
\* and the request that waited behind it has been started
C14_Witness ==
  \E id \in Ids :
    /\ aborted[id]
    /\ cancelled[id] = "no"
    /\ Settled(id)
    /\ RunStarted(3)
    /\ runningStreams < MAX_CONCURRENT_STREAMS

\* C15: start_chat sends the queued event exactly when two runs are active
\* at submission, and the run of that request has not started then; a
\* request submitted while a slot is free gets no queued event and its run
\* starts within the same start_chat call.
C15_QueuedIffBusy ==
  [][ \A id \in Ids :
        (id = nextId /\ StartChat(PlainRequest, MaxOrdered) /\ ret' = Accepted)
          => IF Cardinality({ i \in Ids : RunActive(i) })
                  = MAX_CONCURRENT_STREAMS
               THEN /\ events'[id] = << QueuedEvent >>
                    /\ InQueue(queue', id)
                    /\ ~RunStarted(id)'
               ELSE /\ events'[id] = << >>
                    /\ RunStarted(id)'
                    /\ RunActive(id)' ]_vars

\* the third request was sent the queued event and its run has started
\* since
C15_Witness ==
  /\ events[3] # << >>
  /\ events[3][1] = QueuedEvent
  /\ RunStarted(3)
  /\ events[1] # << >>
  /\ events[1][1].type = "done"

\* the ledger write of a request that made one
LedgerEntry(id) ==
  effects[id][CHOOSE i \in 1..Len(effects[id]) :
                effects[id][i].op = "settingsStore.write"]

\* the requests whose ledger write fell into the stored period
BilledInPeriod ==
  { id \in Ids : WroteLedger(id)
                 /\ LedgerEntry(id).usage.periodKey = settings.usage.periodKey }

\* what a request added to a counter of the stored period
Billed(id, counter) ==
  IF id \notin BilledInPeriod THEN 0 ELSE LedgerEntry(id).added[counter]

RECURSIVE BilledUpTo(_, _)
BilledUpTo(n, counter) ==
  IF n = 0 THEN 0 ELSE Billed(n, counter) + BilledUpTo(n - 1, counter)

TotalBilled(counter) == BilledUpTo(MaxIssued, counter)

\* C16: no ledger update is lost, however completions of concurrent
\* requests and save_config calls interleave: the stored token counts are
\* the sums of the contributions of all requests that completed in the
\* stored period, estimatedCostUsd is the sum of their costs up to the
\* rounding to 4 decimals of each update (half of 0.0001 apiece), and a
\* ledger write leaves the AI settings as they were last saved.
C16_NoLostUpdate ==
  /\ [](/\ \A counter \in {"promptTokens", "completionTokens"} :
             settings.usage[counter] = TotalBilled(counter)
        /\ settings.usage.estimatedCostUsd - TotalBilled("estimatedCostUsd")
             \in -50 * Cardinality(BilledInPeriod)
                  .. 50 * Cardinality(BilledInPeriod))
  /\ [][ \A id \in Ids, u \in BilledUsageChoices :
           StreamEnd(id, u) => settings'.ai = settings.ai ]_vars

\* two requests run side by side; the first has completed and billed
\* tokens and the AI settings have been saved since the second was
\* submitted, so what the second read at submission is stale in both
C16_Witness ==
  /\ WroteLedger(1)
  /\ LedgerEntry(1).added.promptTokens > 0
  /\ 2 \in DOMAIN req
  /\ req[2].state = "stream"
  /\ req[2].settings.usage # settings.usage
  /\ req[2].settings.ai # settings.ai

\* the sum of the values of a map
RECURSIVE SumValues(_)
SumValues(f) ==
  IF DOMAIN f = {} THEN 0
  ELSE LET k == CHOOSE x \in DOMAIN f : TRUE
       IN  f[k] + SumValues(MapDel(f, k))

\* C17: from the empty ledger on, after any sequence of ledger updates
\* over days, features and period rollovers, estimatedCostUsd equals the
\* sum of the daily values and the sum of the featureCosts values, all
\* amounts being exact multiples of 0.0001.  It does not hold: a cost that
\* ends in half of 0.0001 is rounded one way when added to the running
\* total and the other way when added to the entry of a new day or feature.
C17_LedgerSumsAgree ==
  /\ settings.usage.estimatedCostUsd = SumValues(settings.usage.daily)
  /\ settings.usage.estimatedCostUsd = SumValues(settings.usage.featureCosts)
  /\ settings.usage.estimatedCostUsd % 100 = 0

\* C18: after the ledger update of a successful request the stored
\* periodKey is the current calendar month, and if the periodKey stored
\* before was another one the new promptTokens, completionTokens,
\* estimatedCostUsd, daily and featureCosts hold that request's
\* contribution alone (its cost rounded to 4 decimals).
C18_PeriodRollover ==
  [][ \A id \in Ids, u \in BilledUsageChoices :
        StreamEnd(id, u) =>
          LET added == StreamChatResult(req[id].model, u)
              cost == ToFixed4(added.estimatedCostUsd)
          IN  /\ settings'.usage.periodKey = PeriodKey(Today)
              /\ settings.usage.periodKey # PeriodKey(Today) =>
                   settings'.usage =
                     [periodKey |-> PeriodKey(Today),
                      promptTokens |-> added.promptTokens,
                      completionTokens |-> added.completionTokens,
                      estimatedCostUsd |-> cost,
                      daily |-> MapPut(EmptyMap, DayKey(Today), cost),
                      featureCosts |->
                        MapPut(EmptyMap, FeatureOf(req[id]), cost)] ]_vars

\* a request billed tokens in one month and the ledger now stored is the
\* one a later request wrote in the next month
C18_Witness ==
  \E i, j \in Ids :
    /\ WroteLedger(i) /\ WroteLedger(j)
    /\ LedgerEntry(i).added.promptTokens > 0
    /\ LedgerEntry(j).added.promptTokens > 0
    /\ LedgerEntry(i).usage.periodKey # LedgerEntry(j).usage.periodKey
    /\ settings.usage = LedgerEntry(j).usage
    /\ settings.usage.periodKey = PeriodKey(Today)

\* C19: for every request that completes, that is whose run ends with a
\* done event and was not cancelled, the ledger update is written to the
\* settings store before the done event is sent, and the usage the event
\* carries is the ledger just written.  It does not hold: a request that
\* ends with a provider error sends its done event and writes no ledger.
C19_LedgerBeforeDone ==
  \A id \in Ids :
    (HasDone(id) /\ DoneEvent(id).error # Canceled)
      => /\ Len(effects[id]) = 2
         /\ effects[id][1].op = "settingsStore.write"
         /\ effects[id][2].op = "send done"
         /\ effects[id][2].usage = effects[id][1].usage
         /\ DoneEvent(id).usage = effects[id][1].usage

\* C20: in the done event of a successful request budgetReached is set
\* exactly when the updated estimatedCostUsd is at least the monthly
\* budget, and budgetWarning exactly when it is at least 0.8 of the budget
\* and below the budget, so never both.  It does not hold: the code sets
\* budgetWarning whenever the cost is at least 0.8 of the budget.
C20_WarningInsteadOfReached ==
  [][ \A id \in Ids, u \in BilledUsageChoices :
        StreamEnd(id, u) =>
          LET budget == req[id].monthlyBudgetUsd
          IN  /\ DoneEvent(id)'.error = NoError
              /\ DoneEvent(id)'.budgetReached
                   <=> settings'.usage.estimatedCostUsd >= budget
              /\ DoneEvent(id)'.budgetWarning
                   <=> /\ settings'.usage.estimatedCostUsd * 10 >= budget * 8
                       /\ settings'.usage.estimatedCostUsd < budget
              /\ ~(DoneEvent(id)'.budgetReached
                    /\ DoneEvent(id)'.budgetWarning) ]_vars

\* C21: the budget is checked at submission only.  Once the stored
\* estimatedCostUsd has reached monthlyBudgetUsd, every request admitted
\* before is still queued or running with its signal intact, or has ended
\* with its own success event; one that is queued waits for a slot and for
\* nothing else.
C21_AdmittedRunsToCompletion ==
  OverBudget =>
    \A id \in Ids :
      Issued(id) =>
        \/ /\ HasDone(id)
           /\ DoneEvent(id).error = NoError
           /\ WroteLedger(id)
        \/ /\ id \in DOMAIN req
           /\ id \in DOMAIN activeStreams
           /\ ~aborted[id]
           /\ IF InQueue(queue, id)
                THEN runningStreams >= MAX_CONCURRENT_STREAMS
                ELSE RunActive(id)

\* the budget was reached by one request while another waited in the
\* queue; that one has started since and has ended with a success event
C21_Witness ==
  \E a, b \in Ids :
    /\ HasDone(a) /\ DoneEvent(a).budgetReached
    /\ HasDone(b) /\ DoneEvent(b).error = NoError
    /\ events[b][1] = QueuedEvent
    /\ StartIndex(b) > 2
    /\ LedgerEntry(b).usage.estimatedCostUsd
         > LedgerEntry(a).usage.estimatedCostUsd

\* the decoder run on the whole body as one chunk
OneShot(body) == Feed(StartStream(body), Decode(<< >>, body).text)

\* C22: however the body is split into chunks, once it has been read the
\* decoder has emitted the payloads it emits for the unsplit body, in the
\* same order, also when a chunk boundary cuts a blank-line separator.
C22_ChunkingInvariant ==
  (sse.state \in {"ended", "failed"}) =>
    /\ sse.payloads = OneShot(sse.body).payloads
    /\ sse.tokens = OneShot(sse.body).tokens
    /\ sse.state = "failed" <=> OneShot(sse.body).state = "failed"

\* a body of two events was read to its end, a chunk boundary fell inside
\* a blank-line separator, and both payloads were emitted
C22_Witness ==
  /\ sse.state = "ended"
  /\ sse.cut
  /\ Len(sse.payloads) = 2
  /\ sse.pending = << >>

\* C23: a [DONE] payload ends the decoding of its response without error:
\* it raises no decode error itself, and no payload that follows it in the
\* stream yields a token or a decode error.  It does not hold: the callback
\* returns for the [DONE] payload alone and the decoder reads on.
C23_DoneTerminatesDecoding ==
  /\ (sse.payloads # << >> /\ sse.payloads[Len(sse.payloads)] = DONE)
       => sse.state # "failed"
  /\ ~sse.late

\* the step sends the done event of this request, and it carries an error
FailsNow(id) ==
  /\ ~HasDone(id)
  /\ HasDone(id)'
  /\ DoneEvent(id)'.error # NoError

IsSuffix(q, p) == \E k \in 0..Len(p) : q = SubSeq(p, k + 1, Len(p))

ExactCost(model, p, c) ==
  p * ESTIMATED_COSTS[model].promptPerMTok
  + c * ESTIMATED_COSTS[model].completionPerMTok

\* C26: the cost streamChat computes for a completed call is the exact
\* price of the reported tokens rounded to 6 decimals (a millionth of a
\* dollar nearest to it), with a missing count taken as 0; it is 0 for a
\* model that is not in the price table and for a provider that reports
\* no usage.
C26_EstimateCost ==
  [][ \A id \in Ids, u \in CostUsageChoices :
        StreamEnd(id, u) =>
          LET model == req[id].model
              p == IF u.reported /\ "promptTokens" \in DOMAIN u
                     THEN u.promptTokens ELSE 0
              c == IF u.reported /\ "completionTokens" \in DOMAIN u
                     THEN u.completionTokens ELSE 0
          IN  /\ LedgerEntry(id)'.added.promptTokens = p
              /\ LedgerEntry(id)'.added.completionTokens = c
              /\ IF model \in DOMAIN ESTIMATED_COSTS
                    THEN LedgerEntry(id)'.added.estimatedCostUsd * 100
                           - ExactCost(model, p, c) \in -50..50
                    ELSE LedgerEntry(id)'.added.estimatedCostUsd = 0
              /\ ~u.reported => LedgerEntry(id)'.added.estimatedCostUsd = 0 ]_vars

\* one request was billed a cost that had to be rounded up, with its
\* prompt count missing; another, of a model that has no price, reported
\* tokens and was billed nothing
C26_Witness ==
  \E i, j \in Ids :
    /\ WroteLedger(i)
    /\ LedgerEntry(i).added.promptTokens = 0
    /\ LedgerEntry(i).added.completionTokens = 1
    /\ LedgerEntry(i).added.estimatedCostUsd = 1
    /\ WroteLedger(j)
    /\ LedgerEntry(j).added.promptTokens > 0
    /\ LedgerEntry(j).added.estimatedCostUsd = 0

\* the runs that have started and not yet settled
ActiveRuns == { id \in Ids : RunActive(id) }
JustStarted(id) == ~RunActive(id) /\ RunActive(id)'
JustSettled(id) == RunActive(id) /\ ~RunActive(id)'

\* C27: runningStreams equals the number of runs that have started and not
\* yet settled and is never negative; a step changes it by one up for
\* every run it starts and one down for every run it settles, a run
\* cancelled while running included, and cancel_chat leaves it alone.
C27_RunningStreamsCountsRuns ==
  /\ [](runningStreams = Cardinality(ActiveRuns) /\ runningStreams >= 0)
  /\ [][ /\ runningStreams' =
              runningStreams
              + Cardinality({ id \in Ids : JustStarted(id) })
              - Cardinality({ id \in Ids : JustSettled(id) })
         /\ \A id \in Ids :
              /\ JustStarted(id) =>
                   Len(started') > Len(started) /\ ~RunStarted(id)
              /\ JustSettled(id) => ~HasDone(id) /\ HasDone(id)'
         /\ (\E id \in 1..UnknownId : Cancellable(id) /\ CancelChat(id))
              => runningStreams' = runningStreams ]_vars

\* a run cancelled while running has settled and given its slot back,
\* while another run still holds its own
C27_Witness ==
  \E i, j \in Ids :
    /\ cancelled[i] = "running" /\ HasDone(i) /\ ~RunActive(i)
    /\ RunActive(j)
    /\ runningStreams = 1

\* the ids the queue holds, and how often it holds one
QueuedIds == { queue[i] : i \in 1..Len(queue) }
TimesQueued(id) == Cardinality({ i \in 1..Len(queue) : queue[i] = id })

\* C28: the controller map holds exactly the queued requests, flagged
\* queued and once in the queue, and the running requests that were not
\* cancelled, flagged not queued and absent from the queue; it is empty
\* when nothing is queued or running.
C28_ControllerMapIsExact ==
  /\ DOMAIN activeStreams =
       QueuedIds \cup { id \in ActiveRuns : cancelled[id] = "no" }
  /\ \A id \in DOMAIN activeStreams :
       IF activeStreams[id]
         THEN TimesQueued(id) = 1 /\ ~RunActive(id)
         ELSE TimesQueued(id) = 0 /\ RunActive(id)
  /\ (queue = << >> /\ ActiveRuns = {}) => DOMAIN activeStreams = {}

\* one request waits with its controller, one runs with its controller,
\* and one runs on after cancel_chat dropped its controller
C28_Witness ==
  \E i, j, k \in Ids :
    /\ InQueue(queue, i) /\ i \in DOMAIN activeStreams /\ activeStreams[i]
    /\ RunActive(j) /\ j \in DOMAIN activeStreams /\ ~activeStreams[j]
    /\ RunActive(k) /\ cancelled[k] = "running"
    /\ k \notin DOMAIN activeStreams

\* C29: whenever a handler or completion callback has returned, a
\* non-empty queue means MAX_CONCURRENT_STREAMS runs are active; the step
\* in which a run settles starts the request at the head of the queue; and
\* a queued request that is not cancelled eventually starts.
C29_WorkConserving ==
  /\ [](queue # << >> => runningStreams = MAX_CONCURRENT_STREAMS)
  /\ [][ \A id, next \in Ids :
           (JustSettled(id) /\ queue # << >> /\ next = Head(queue)) =>
             /\ JustStarted(next)
             /\ queue' = Tail(queue) ]_vars
  /\ \A id \in Ids :
       InQueue(queue, id) ~> (RunStarted(id) \/ cancelled[id] = "queued")

\* the request that waited behind two runs, one of them cancelled while
\* running, was started when one of the two settled
C29_Witness ==
  \E i \in Ids :
    /\ cancelled[i] = "running" /\ HasDone(i)
    /\ RunStarted(3) /\ RunActive(3)
    /\ events[3] # << >> /\ events[3][1].type = "queued"

\* C30: a request whose done event carries an error (provider failure,
\* malformed payload, timeout or cancel) has written nothing: the step that
\* sends the event leaves the stored settings and ledger as they were, no
\* tokens, no cost, no new period, and the send is all the request does.
C30_ErrorLeavesLedger ==
  /\ [](\A id \in Ids :
          (HasDone(id) /\ DoneEvent(id).error # NoError) => ~WroteLedger(id))
  /\ [][ \A id \in Ids :
           FailsNow(id) =>
             /\ settings' = settings
             /\ effects'[id] = Append(effects[id], SentDone(DoneEvent(id)'))
             /\ DoneEvent(id)'.usage = NoUsage ]_vars

\* a request failed after the month had changed and after another
\* request had billed tokens: the stored ledger still is last month's
C30_Witness ==
  \E f, o \in Ids :
    /\ HasDone(f) /\ DoneEvent(f).error = Message(DecodeError)
    /\ WroteLedger(o) /\ LedgerEntry(o).added.promptTokens > 0
    /\ settings.usage.promptTokens > 0
    /\ settings.usage.periodKey # PeriodKey(Today)

\* the arguments run() passes to aiService.streamChat: the key, and
\* requestSettings = { ...settings.ai, provider, model }
CallOf(r) ==
  [apiKey |-> r.apiKey,
   requestSettings |-> [r.settings.ai EXCEPT !.provider = r.provider,
                                             !.model = r.model]]

\* C31: a request runs on what start_chat read at submission.  Its closure
\* takes the stored settings, provider, model and key of that moment; no
\* later step, a save_config while it is queued or running least of all,
\* changes the arguments of its provider call; and when it completes it is
\* billed at the price of that model and its budgetReached and
\* budgetWarning flags compare with the budget of that moment.
C31_RunsOnSubmissionSettings ==
  [][ /\ \A id \in Ids :
          (id = nextId /\ nextId' = nextId + 1) =>
            /\ id \in DOMAIN req'
            /\ req'[id].settings = settings
            /\ CallOf(req'[id]) =
                 [apiKey |-> apiKeys[settings.ai.provider],
                  requestSettings |-> settings.ai]
      /\ \A id \in DOMAIN req \cap DOMAIN req' :
           /\ CallOf(req'[id]) = CallOf(req[id])
           /\ req'[id].settings = req[id].settings
      /\ \A id \in Ids, u \in UsageChoices :
           StreamEnd(id, u) =>
             /\ LedgerEntry(id)'.added.estimatedCostUsd =
                  EstimateCost(CallOf(req[id]).requestSettings.model,
                               CountOf(u, "promptTokens"),
                               CountOf(u, "completionTokens"))
             /\ DoneEvent(id)'.budgetReached =
                  (DoneEvent(id)'.usage.estimatedCostUsd
                     >= req[id].settings.ai.monthlyBudgetUsd)
             /\ DoneEvent(id)'.budgetWarning =
                  (DoneEvent(id)'.usage.estimatedCostUsd * 10
                     >= req[id].settings.ai.monthlyBudgetUsd * 8) ]_vars

\* a request that waited in the queue while save_config lowered the
\* budget and changed the model was billed at the price of the model it
\* was submitted with, and its terminal event does not report the budget
\* reached although the ledger is past the budget now stored
C31_Witness ==
  \E id \in Ids :
    /\ events[id] # << >> /\ events[id][1] = QueuedEvent
    /\ HasDone(id) /\ DoneEvent(id).error = NoError
    /\ WroteLedger(id)
    /\ LedgerEntry(id).added.estimatedCostUsd
         = EstimateCost("gpt-4o-mini", 1000000, 0)
    /\ settings.ai.model = "gpt-5"
    /\ DoneEvent(id).usage.estimatedCostUsd >= settings.ai.monthlyBudgetUsd
    /\ ~DoneEvent(id).budgetReached

\* C32: the payloads decoded for a response depend on its own bytes only:
\* however the chunk reads of two calls running side by side interleave,
\* and also when the other call was aborted between two chunks, a body
\* read to its end has given the payloads it gives when decoded alone.
\* It does not hold: both calls decode through the one TextDecoder of the
\* module, in streaming mode, and the first byte of a character that ends
\* one call's chunk is joined to the next chunk decoded, whichever call
\* that chunk belongs to.
C32_StreamsAreIndependent ==
  /\ sse.state \in {"ended", "failed"}
       => sse.payloads = OneShot(sse.body).payloads
  /\ peer.state \in {"ended", "failed"}
       => peer.payloads = OneShot(peer.body).payloads

\* the payloads of the events of a body that a blank line closes
ClosedPayloads(body) ==
  PayloadsOf(ParseSSEChunk(Decode(<< >>, body).text).events)

\* C33: when the response ends, what is left in the pending buffer is
\* dropped: the end of the stream emits no payload and no token, so a
\* body read to its end has given the payloads of the events a blank line
\* closed and nothing for a last data line that lacks its blank line.
C33_UnterminatedTailIsDropped ==
  /\ [][ ReadDone =>
           /\ sse'.state = "ended"
           /\ sse'.payloads = sse.payloads
           /\ sse'.tokens = sse.tokens ]_vars
  /\ [](sse.state = "ended" =>
          /\ sse.payloads = ClosedPayloads(sse.body)
          /\ sse.pending = ParseSSEChunk(Decode(<< >>, sse.body).text).rest)

\* a body of two data lines was read to its end; a blank line closed the
\* first, whose payload was emitted, and a line end alone followed the
\* second, which is still in the buffer
C33_Witness ==
  /\ sse.state = "ended"
  /\ Len(sse.payloads) = 1
  /\ sse.tokens = << "a" >>
  /\ DataLines(sse.pending) = << << "a" >> >>

\* a step of test_connection: the handler or one of its continuations
ProbeStep ==
  \/ \E provider \in Providers : TestConnection(provider)
  \/ ProbeHttpError(503)
  \/ ProbeBackoffElapsed
  \/ ProbeSucceeds
  \/ ProbeFails(DecodeError)
  \/ ProbeTimeout
  \/ ProbeAborted

\* C34: test_connection never throws: without a key it returns
\* {ok: false, "Missing API key"}, and when its provider call fails or
\* times out it returns {ok: false} with the message of the error.  None
\* of its steps touches the controller map, the queue, runningStreams, the
\* requests, the stored settings or the ledger, and with a key stored it
\* makes its provider call whatever the budget and however many requests
\* are running.
C34_TestConnectionStandsApart ==
  [][ /\ ProbeStep =>
           /\ ret' \in {NoCall, ConnectionOk, ConnectionFailed}
           /\ ret' = ConnectionFailed => probe'.message[1] # None
           /\ UNCHANGED << DispatcherFrame, settings, apiKeys, aborted,
                           cancelled, effects >>
      /\ \A provider \in Providers :
           TestConnection(provider) =>
             IF apiKeys[provider] = ""
               THEN ret' = ConnectionFailed
                    /\ probe'.message = MissingKeyMessage
                    /\ probe'.state = "idle"
               ELSE ret' = NoCall /\ probe'.state = "fetch"
      /\ (probe.state # "idle" /\ probe'.state = "idle") =>
           \/ ret' = ConnectionOk
           \/ ret' = ConnectionFailed
                /\ probe'.message \in
                     { Canceled, Message(DecodeError),
                       Message(ProviderRequestError(503)) } ]_vars

\* a connection test has just succeeded while the budget was reached and
\* both slots were taken
C34_Witness ==
  /\ ret = ConnectionOk
  /\ OverBudget
  /\ runningStreams = MAX_CONCURRENT_STREAMS

====
